---- MODULE Spec2Model ----
(***************************************************************************)
(* Model of the extraction-and-partitioning core of codeWiki:              *)
(*   - the graph engine of dependency_analyzer/topo_sort.py               *)
(*     (detect_cycles, resolve_cycles, topological_sort,                   *)
(*     dependency_first_dfs),                                              *)
(*   - the candidate selector get_leaf_nodes of the same file,             *)
(*   - the recursive module partitioner cluster_modules of                 *)
(*     cluster_modules.py.                                                 *)
(*                                                                         *)
(* Component ids are strings in the program.  The graph engine only        *)
(* compares them for equality and, in sorted(), for order, so they are     *)
(* modelled as the integers 1..NumNodes, whose order stands for the        *)
(* lexicographic order of the ids.                                         *)
(*                                                                         *)
(* A dict is modelled with its insertion order (a sequence of keys), since *)
(* the code iterates over dicts.  A set of strings is iterated in an order *)
(* that depends on the interpreter's string hashing; that order is the     *)
(* variable setOrder, chosen nondeterministically.                         *)
(***************************************************************************)
EXTENDS Integers, Sequences, FiniteSets, TLC

\* ------------------------------------------------------------------------
\* Bounds of the model
\* ------------------------------------------------------------------------
NumNodes == 3

MaxResolveCalls == 2

Nodes == 1..NumNodes

\* ------------------------------------------------------------------------
\* Generic helpers
\* ------------------------------------------------------------------------
Min(a, b) == IF a <= b THEN a ELSE b

Range(s) == {s[i] : i \in DOMAIN s}

Reverse(s) == [i \in 1..Len(s) |-> s[Len(s) + 1 - i]]

\* All orderings (sequences without repetition) of the finite set S.
Perms(S) ==
  {f \in [1..Cardinality(S) -> S] : \A i, j \in 1..Cardinality(S) : f[i] = f[j] => i = j}

\* Position of x in the sequence s (0 when absent).
IndexOf(s, x) ==
  IF x \in Range(s) THEN CHOOSE i \in DOMAIN s : s[i] = x /\ \A j \in 1..(i - 1) : s[j] # x
  ELSE 0

\* The elements of S in the order in which the sequence ord lists them:
\* iteration over a Python set under hash order ord, and sorted(S) when ord
\* is the ascending order.
SetOrder(S, ord) == SelectSeq(ord, LAMBDA x : x \in S)

Ascending == [i \in 1..NumNodes |-> i]

sorted(S) == SetOrder(S, Ascending)

IsPermutationOf(s, S) == Len(s) = Cardinality(S) /\ Range(s) = S

\* ------------------------------------------------------------------------
\* Dependency graphs: Dict[str, Set[str]].  keys is the dict's insertion
\* order, deps[n] the set stored under n (empty for a node that is no key).
\* build_graph_from_components only stores targets that are keys themselves.
\* ------------------------------------------------------------------------
KeySet(g) == Range(g.keys)

Graphs ==
  {g \in [keys : UNION {Perms(K) : K \in SUBSET Nodes}, deps : [Nodes -> SUBSET Nodes]] :
     \A n \in Nodes : IF n \in KeySet(g) THEN g.deps[n] \subseteq KeySet(g) ELSE g.deps[n] = {}}

Edges(g) == {e \in Nodes \X Nodes : e[1] \in KeySet(g) /\ e[2] \in g.deps[e[1]]}

\* Nodes reachable from n over one or more edges.
RECURSIVE ReachFrom(_, _, _)
ReachFrom(g, frontier, seen) ==
  LET next == UNION {g.deps[x] : x \in frontier}
  IN IF next \subseteq seen THEN seen ELSE ReachFrom(g, next \ seen, seen \cup next)

Reach(g, n) == ReachFrom(g, {n}, {})

IsAcyclic(g) == \A n \in KeySet(g) : n \notin Reach(g, n)

\* ------------------------------------------------------------------------
\* detect_cycles: Tarjan's algorithm.  st is the state the closure
\* strongconnect shares: index_counter, index, lowlink, onstack, stack, result.
\* ------------------------------------------------------------------------
TarjanInit ==
  [counter |-> 0, index |-> [n \in Nodes |-> -1], lowlink |-> [n \in Nodes |-> -1],
   onstack |-> {}, stack |-> <<>>, result |-> <<>>]

\* The same pop, keeping a component of one member too.
PopScc_KeepSingletons(node, st) ==
  LET p == IndexOf(st.stack, node)
      scc == Reverse(SubSeq(st.stack, p, Len(st.stack)))
  IN [st EXCEPT !.stack = SubSeq(st.stack, 1, p - 1),
                !.onstack = @ \ Range(scc),
                !.result = Append(@, scc)]

\* Lines 57-69: pop the stack down to node; keep the component if it has
\* more than one member.
PopScc(node, st) ==
  LET p == IndexOf(st.stack, node)
      scc == Reverse(SubSeq(st.stack, p, Len(st.stack)))
  IN [st EXCEPT !.stack = SubSeq(st.stack, 1, p - 1),
                !.onstack = @ \ Range(scc),
                !.result = IF Len(scc) > 1 THEN Append(@, scc) ELSE @]

RECURSIVE strongconnect(_, _, _, _)
RECURSIVE ConsiderSuccessors(_, _, _, _, _)
strongconnect(g, ord, node, st) ==
  LET st1 == [st EXCEPT !.index[node] = st.counter, !.lowlink[node] = st.counter,
                        !.counter = @ + 1, !.stack = Append(@, node),
                        !.onstack = @ \cup {node}]
      st2 == ConsiderSuccessors(g, ord, node, SetOrder(g.deps[node], ord), st1)
  IN IF st2.lowlink[node] = st2.index[node] THEN PopScc(node, st2) ELSE st2

ConsiderSuccessors(g, ord, node, succs, st) ==
  IF succs = <<>> THEN st
  ELSE LET successor == Head(succs)
           st1 == IF st.index[successor] = -1
                  THEN LET r == strongconnect(g, ord, successor, st)
                       IN [r EXCEPT !.lowlink[node] = Min(r.lowlink[node], r.lowlink[successor])]
                  ELSE IF successor \in st.onstack
                  THEN [st EXCEPT !.lowlink[node] = Min(st.lowlink[node], st.index[successor])]
                  ELSE st
       IN ConsiderSuccessors(g, ord, node, Tail(succs), st1)

RECURSIVE VisitEachNode(_, _, _, _)
VisitEachNode(g, ord, todo, st) ==
  IF todo = <<>> THEN st
  ELSE VisitEachNode(g, ord, Tail(todo),
                     IF st.index[Head(todo)] = -1 THEN strongconnect(g, ord, Head(todo), st) ELSE st)

detect_cycles(g, ord) == VisitEachNode(g, ord, g.keys, TarjanInit).result

\* ------------------------------------------------------------------------
\* resolve_cycles
\* ------------------------------------------------------------------------
\* Lines 110-117: the first j with cycle[j+1] in new_graph[cycle[j]]; 0 if none.
RECURSIVE FirstBreak(_, _, _)
FirstBreak(deps, cycle, j) ==
  IF j > Len(cycle) - 1 THEN 0
  ELSE IF cycle[j + 1] \in deps[cycle[j]] THEN j
  ELSE FirstBreak(deps, cycle, j + 1)

BreakCycle(deps, cycle) ==
  LET j == FirstBreak(deps, cycle, 1)
  IN IF j = 0 THEN deps ELSE [deps EXCEPT ![cycle[j]] = @ \ {cycle[j + 1]}]

RECURSIVE BreakCycles(_, _)
BreakCycles(deps, cycles) ==
  IF cycles = <<>> THEN deps ELSE BreakCycles(BreakCycle(deps, Head(cycles)), Tail(cycles))

resolve_cycles(g, ord) ==
  LET cycles == detect_cycles(g, ord)
  IN IF cycles = <<>> THEN g ELSE [keys |-> g.keys, deps |-> BreakCycles(g.deps, cycles)]

\* new_graph[current] at line 114 raises KeyError when a cycle member is no
\* key of the graph.
resolve_cycles_raises(g, ord) ==
  \E i \in DOMAIN detect_cycles(g, ord) :
    \E j \in 1..(Len(detect_cycles(g, ord)[i]) - 1) : detect_cycles(g, ord)[i][j] \notin KeySet(g)

\* ------------------------------------------------------------------------
\* topological_sort
\* ------------------------------------------------------------------------
\* Lines 136-142: in_degree[dep] is the number of keys that depend on dep.
InDegree(g) == [n \in Nodes |-> Cardinality({m \in KeySet(g) : n \in g.deps[m]})]

\* Lines 156-160: for every key that depends on node, in key order.
RECURSIVE ReduceDependents(_, _, _, _)
ReduceDependents(g, node, todo, k) ==
  IF todo = <<>> THEN k
  ELSE LET dependent == Head(todo)
           k1 == IF node \in g.deps[dependent]
                 THEN [queue |-> IF k.in_degree[dependent] - 1 = 0
                                 THEN Append(k.queue, dependent) ELSE k.queue,
                       in_degree |-> [k.in_degree EXCEPT ![dependent] = @ - 1],
                       result |-> k.result]
                 ELSE k
       IN ReduceDependents(g, node, Tail(todo), k1)

\* Lines 151-160: Kahn's loop.
RECURSIVE KahnLoop(_, _)
KahnLoop(g, k) ==
  IF k.queue = <<>> THEN k.result
  ELSE LET node == Head(k.queue)
           k1 == [queue |-> Tail(k.queue), in_degree |-> k.in_degree,
                  result |-> Append(k.result, node)]
       IN KahnLoop(g, ReduceDependents(g, node, g.keys, k1))

KahnResult(acyclic_graph) ==
  KahnLoop(acyclic_graph,
           [queue |-> SelectSeq(acyclic_graph.keys, LAMBDA n : InDegree(acyclic_graph)[n] = 0),
            in_degree |-> InDegree(acyclic_graph), result |-> <<>>])

\* TopoReturn without the fallback of lines 163-166.
TopoReturn_NoFallback(acyclic_graph, result) == Reverse(result)

\* Lines 162-169: fall back to the keys when the loop did not reach every node.
TopoReturn(acyclic_graph, result) ==
  IF Len(result) # Len(acyclic_graph.keys) THEN acyclic_graph.keys ELSE Reverse(result)

topological_sort(g, ord) ==
  LET acyclic_graph == resolve_cycles(g, ord)
  IN TopoReturn(acyclic_graph, KahnResult(acyclic_graph))

\* ------------------------------------------------------------------------
\* dependency_first_dfs
\* ------------------------------------------------------------------------
has_incoming_edge(g) == [n \in Nodes |-> \E m \in KeySet(g) : n \in g.deps[m]]

\* Lines 201-207.
root_nodes(g) ==
  LET roots == SelectSeq(g.keys, LAMBDA n : ~has_incoming_edge(g)[n])
  IN IF roots = <<>> THEN SubSeq(g.keys, 1, Min(1, Len(g.keys))) ELSE roots

\* Lines 214-224; d is [visited, result].
RECURSIVE dfs(_, _, _)
RECURSIVE dfsEach(_, _, _)
\* The same visit appending the node before its dependencies.
dfs_AppendFirst(g, node, d) ==
  IF node \in d.visited THEN d
  ELSE dfsEach(g, sorted(g.deps[node]),
               [d EXCEPT !.visited = @ \cup {node}, !.result = Append(@, node)])

dfs(g, node, d) ==
  IF node \in d.visited THEN d
  ELSE LET d1 == dfsEach(g, sorted(g.deps[node]), [d EXCEPT !.visited = @ \cup {node}])
       IN [d1 EXCEPT !.result = Append(@, node)]

dfsEach(g, todo, d) ==
  IF todo = <<>> THEN d ELSE dfsEach(g, Tail(todo), dfs(g, Head(todo), d))

\* Lines 227-228: the traversal from the roots.
DfsFromRoots(acyclic_graph) ==
  dfsEach(acyclic_graph, sorted(Range(root_nodes(acyclic_graph))),
          [visited |-> {}, result |-> <<>>])

\* DfsRemaining without the loop of lines 233-235.
DfsRemaining_NoSafetyNet(acyclic_graph, d) == d

\* Lines 231-235: the remaining nodes, in sorted order.
DfsRemaining(acyclic_graph, d) ==
  IF Len(d.result) # Len(acyclic_graph.keys)
  THEN dfsEach(acyclic_graph, sorted(KeySet(acyclic_graph)), d)
  ELSE d

dependency_first_dfs(g, ord) ==
  LET acyclic_graph == resolve_cycles(g, ord)
  IN DfsRemaining(acyclic_graph, DfsFromRoots(acyclic_graph)).result

\* ------------------------------------------------------------------------
\* The component registry as the candidate selector reads it.  A registry
\* is [ids, comp]: the set of its keys and, for each, the fields of Node
\* that get_leaf_nodes uses:
\*   component_type  the kind of the component,
\*   name            the name of the component,
\*   documented      has_docstring or a non-empty docstring,
\*   lines           number of lines of source_code,
\* and, for every id, id_keyword: what the lower-cased text of the id
\* contains: "exception" when it contains 'exception', "error" when it
\* contains 'error', 'failed' or 'invalid' only, else "none".
\* suffixed tells whether the text of id NumNodes is the text of id 1
\* followed by ".__init__" (then node.replace(".__init__", "") is id 1).
\* ------------------------------------------------------------------------
LeafCap == 2

MaxLeafEdges == 2

LeafInputs ==
  { [comp |-> [component_type |-> "class", name |-> "helper", documented |-> TRUE, lines |-> 10],
     id_keyword |-> "none"],
    [comp |-> [component_type |-> "class", name |-> "_helper", documented |-> FALSE, lines |-> 1],
     id_keyword |-> "exception"],
    [comp |-> [component_type |-> "function", name |-> "main", documented |-> TRUE, lines |-> 5],
     id_keyword |-> "none"],
    [comp |-> [component_type |-> "struct", name |-> "helper", documented |-> FALSE, lines |-> 201],
     id_keyword |-> "error"],
    [comp |-> [component_type |-> "function", name |-> "helper", documented |-> FALSE, lines |-> 1],
     id_keyword |-> "exception"],
    [comp |-> [component_type |-> "class", name |-> "helper", documented |-> FALSE, lines |-> 10],
     id_keyword |-> "error"] }

\* The graphs handed to the selector: built from the registry in id order.
LeafGraphs ==
  {g \in Graphs : g.keys = sorted(KeySet(g)) /\ Cardinality(Edges(g)) <= MaxLeafEdges}

endswith_init(node, suffixed) == suffixed /\ node = NumNodes /\ NumNodes > 1

\* Lines 431-433.
display_node(node, suffixed) == IF endswith_init(node, suffixed) THEN 1 ELSE node

\* Lines 283-302.
oop_types == {"class", "interface", "struct", "enum", "record", "abstract class"}

func_types == {"function", "async_function", "method"}

analyze_component_distribution(reg) ==
  [oop_count |-> Cardinality({n \in reg.ids : reg.comp[n].component_type \in oop_types}),
   func_count |-> Cardinality({n \in reg.ids : reg.comp[n].component_type \in func_types}),
   total |-> Cardinality(reg.ids)]

\* Lines 317-340; oop_ratio < 0.1 is oop_count / total < 1 / 10.
determine_valid_types(reg) ==
  LET dist == analyze_component_distribution(reg)
      base == {"class", "interface", "struct", "enum", "record", "abstract class", "annotation"}
  IN IF dist.oop_count = 0 THEN base \cup {"function", "async_function"}
     ELSE IF 10 * dist.oop_count < dist.total /\ dist.func_count > 20
     THEN base \cup {"function", "async_function"}
     ELSE IF dist.oop_count < 5 /\ dist.func_count > 50
     THEN base \cup {"function", "async_function"}
     ELSE base

\* Line 371: the names taken for entry points.
entry_point_names == {"main", "__main__", "run", "start", "execute"}

\* The component names of the model, and those of them that start with '_'.
ComponentNames == entry_point_names \cup {"helper", "_helper", "__init__"}

startswith_underscore(name) == name \in {"__main__", "_helper", "__init__"}

\* The same score without the limit of 30 on the points for dependents.
ImportanceScore_UncappedDependents(comp, used_by_count) ==
  LET s1 == used_by_count * 5
      s2 == IF comp.name \in entry_point_names THEN 20
            ELSE IF ~startswith_underscore(comp.name) THEN 10 ELSE 0
      s3 == IF comp.documented THEN 15 ELSE 0
      s4 == IF 10 <= comp.lines /\ comp.lines <= 200 THEN 10
            ELSE IF 5 <= comp.lines /\ comp.lines < 10 THEN 5 ELSE 0
      s5 == IF comp.component_type \in {"class", "interface"} THEN 10
            ELSE IF comp.component_type \in {"struct", "enum"} THEN 5 ELSE 0
  IN Min(s1 + s2 + s3 + s4 + s5, 100)

\* Lines 365-399: the score of a registry component with used_by_count
\* dependents.
ImportanceScore(comp, used_by_count) ==
  LET s1 == Min(used_by_count * 5, 30)
      s2 == IF comp.name \in entry_point_names THEN 20
            ELSE IF ~startswith_underscore(comp.name) THEN 10 ELSE 0
      s3 == IF comp.documented THEN 15 ELSE 0
      s4 == IF 10 <= comp.lines /\ comp.lines <= 200 THEN 10
            ELSE IF 5 <= comp.lines /\ comp.lines < 10 THEN 5 ELSE 0
      s5 == IF comp.component_type \in {"class", "interface"} THEN 10
            ELSE IF comp.component_type \in {"struct", "enum"} THEN 5 ELSE 0
  IN Min(s1 + s2 + s3 + s4 + s5, 100)

\* Line 368: the number of graph entries whose set holds comp_id.
used_by_count(comp_id, g) == Cardinality({m \in KeySet(g) : comp_id \in g.deps[m]})

\* Lines 361-399.
calculate_component_importance(comp_id, reg, g) ==
  IF comp_id \notin reg.ids THEN 0
  ELSE ImportanceScore(reg.comp[comp_id], used_by_count(comp_id, g))

\* Lines 439-450: TRUE when the node is skipped for its error-related name.
SkippedForKeyword(node, reg) ==
  /\ reg.id_keyword[node] # "none"
  /\ ~(/\ reg.id_keyword[node] = "exception"
       /\ node \in reg.ids
       /\ reg.comp[node].component_type = "class")

\* Lines 452-463: the entry appended for node, or <<>>.
ScoredEntry(node, reg, acyclic_graph, suffixed) ==
  IF SkippedForKeyword(node, reg) THEN <<>>
  ELSE IF node \in reg.ids
  THEN IF reg.comp[node].component_type \in determine_valid_types(reg)
       THEN << <<display_node(node, suffixed),
                 calculate_component_importance(node, reg, acyclic_graph)>> >>
       ELSE <<>>
  ELSE IF display_node(node, suffixed) \in reg.ids
  THEN IF reg.comp[display_node(node, suffixed)].component_type \in determine_valid_types(reg)
       THEN << <<display_node(node, suffixed),
                 calculate_component_importance(display_node(node, suffixed), reg, acyclic_graph)>> >>
       ELSE <<>>
  ELSE <<>>

\* Lines 425-465: candidates is a set, visited in the interpreter's order.
RECURSIVE ScoreEach(_, _, _, _)
ScoreEach(todo, reg, acyclic_graph, suffixed) ==
  IF todo = <<>> THEN <<>>
  ELSE ScoredEntry(Head(todo), reg, acyclic_graph, suffixed)
         \o ScoreEach(Tail(todo), reg, acyclic_graph, suffixed)

filter_and_score_nodes(candidates, ord, reg, acyclic_graph, suffixed) ==
  ScoreEach(SetOrder(candidates, ord), reg, acyclic_graph, suffixed)

\* list.sort(key=lambda x: -x[1]): a stable sort by descending score.
RECURSIVE InsertByScore(_, _)
InsertByScore(sortedSeq, x) ==
  IF sortedSeq = <<>> THEN <<x>>
  ELSE IF Head(sortedSeq)[2] >= x[2] THEN <<Head(sortedSeq)>> \o InsertByScore(Tail(sortedSeq), x)
  ELSE <<x>> \o sortedSeq

RECURSIVE SortByScore(_, _)
SortByScore(done, todo) ==
  IF todo = <<>> THEN done ELSE SortByScore(InsertByScore(done, Head(todo)), Tail(todo))

sort_by_importance(scored_nodes) == SortByScore(<<>>, scored_nodes)

\* Lines 475-477: the nodes that are nobody's dependency.
DiscardDependencies(leaf_nodes, acyclic_graph) ==
  leaf_nodes \ UNION {acyclic_graph.deps[m] : m \in KeySet(acyclic_graph)}

\* Lines 483-486.
TakeTop(scored_nodes) ==
  IF Len(scored_nodes) >= LeafCap
  THEN SubSeq(sort_by_importance(scored_nodes), 1, LeafCap)
  ELSE scored_nodes

\* Lines 467-486: the scored list before the final sort.
ScoredLeafNodes(g, reg, ord, suffixed) ==
  LET acyclic_graph == resolve_cycles(g, ord)
      leaf_nodes == KeySet(acyclic_graph)
      first == filter_and_score_nodes(leaf_nodes, ord, reg, acyclic_graph, suffixed)
  IN IF Len(first) >= LeafCap
     THEN TakeTop(filter_and_score_nodes(DiscardDependencies(leaf_nodes, acyclic_graph),
                                         ord, reg, acyclic_graph, suffixed))
     ELSE first

\* Lines 488-497.
get_leaf_nodes(g, reg, ord, suffixed) ==
  LET scored_nodes == sort_by_importance(ScoredLeafNodes(g, reg, ord, suffixed))
  IN [i \in 1..Len(scored_nodes) |-> scored_nodes[i][1]]

\* ------------------------------------------------------------------------
\* The module partitioner, cluster_modules.
\*
\* The registry holds the components 1..NumComponents; ForeignId stands for
\* anything else an oracle may put in a components list (a string that is no
\* registry key, or a value that is no string).  A components list is
\* modelled by the set of its items.  Module names come from ModuleNames;
\* a module tree maps each name to the components stored under it, the empty
\* set standing for a name that is no key (validate_module_tree never keeps a
\* module without components).  Dicts of modules are iterated in NameOrder.
\* ------------------------------------------------------------------------
NumComponents == 2

MaxBudget == 1

MaxMaxRetries == 1

RecursionLimit == 2

MaxDepth == 1

Components == 1..NumComponents

ForeignId == NumComponents + 1

ModuleNames == {"m1", "m2"}

NameOrder == <<"m1", "m2">>

\* What safe_parse_llm_response can find under a module name of the payload:
\* no such key, a value that is no dict, or a dict with a components list.
ModuleInfos ==
  {[kind |-> "absent", components |-> {}], [kind |-> "notdict", components |-> {}]}
    \cup {[kind |-> "dict", components |-> c] : c \in SUBSET (Components \cup {ForeignId})}

\* The answers of call_llm that cluster_modules tells apart.
OracleResponses ==
  {[kind |-> k, tree |-> [n \in ModuleNames |-> [kind |-> "absent", components |-> {}]]] :
     k \in {"raise", "notags", "unparsable", "nondict"}}
    \cup {[kind |-> "dict", tree |-> t] : t \in [ModuleNames -> ModuleInfos]}

\* Lines 392-419 and 446, utils.py 32-37: the token count of the rendered
\* candidates; every candidate found in the registry renders to one token.
TokensOf(leaf_nodes) == Cardinality(leaf_nodes \cap Components)

\* Lines 107-110 without the membership test.
ValidComponents_NoFilter(module_components) == module_components

\* Lines 107-110.
ValidComponents(module_components) == module_components \cap Components

\* Lines 93-122.
validate_module_tree(parsed_tree) ==
  [n \in ModuleNames |->
     IF parsed_tree[n].kind = "dict" THEN ValidComponents(parsed_tree[n].components) ELSE {}]

EmptyTree == [n \in ModuleNames |-> {}]

ModulesOf(module_tree) == SelectSeq(NameOrder, LAMBDA n : module_tree[n] # {})

\* range(max_retries) in place of line 465.
AttemptLimit_OffByOne(max_retries) == max_retries

\* Line 465: range(max_retries + 1).
AttemptLimit(max_retries) == max_retries + 1

\* A call of cluster_modules in progress.
NewFrame(leaf_nodes) ==
  [leaf_nodes |-> leaf_nodes, pc |-> "enter", attempt |-> 0, calls |-> 0, raises |-> 0,
   module_tree |-> EmptyTree, parsed |-> FALSE, pos |-> 1, ret |-> "none"]

IsPrefix(p, q) == Len(p) <= Len(q) /\ SubSeq(q, 1, Len(p)) = p

\* ------------------------------------------------------------------------
\* build_graph_from_components.  The registry is a dict: keys is its
\* insertion order, depends_on[n] the depends_on set of the component stored
\* under n.  A depends_on set may name ids that are no registry keys, among
\* them ExternalId, an id outside the repository.
\* ------------------------------------------------------------------------
ExternalId == NumNodes + 1

ComponentRegistries ==
  {c \in [keys : UNION {Perms(K) : K \in SUBSET Nodes},
          depends_on : [Nodes -> SUBSET (Nodes \cup {ExternalId})]] :
     \A n \in Nodes : n \notin Range(c.keys) => c.depends_on[n] = {}}

\* Lines 262-266 without the test of line 265.
RegistryDependencies_NoFilter(comps, comp_id) == comps.depends_on[comp_id]

\* Lines 262-266: the dependencies that are registry keys.
RegistryDependencies(comps, comp_id) == comps.depends_on[comp_id] \cap Range(comps.keys)

\* Lines 255-268.
build_graph_from_components(comps) ==
  [keys |-> comps.keys,
   deps |-> [n \in Nodes |-> IF n \in Range(comps.keys)
                             THEN RegistryDependencies(comps, n) ELSE {}]]

\* ------------------------------------------------------------------------
\* State
\* ------------------------------------------------------------------------
VARIABLES
  graph,        \* the dependency graph handed to the graph engine
  setOrder,     \* iteration order of sets of ids in this interpreter run
  acyclic,      \* the graph after the resolve_cycles calls made so far
  resolveCalls, \* number of resolve_cycles calls applied to acyclic
  gop,          \* the graph operation applied last
  order,        \* the list returned by the last ordering operation
  cycles,       \* the list returned by the last detect_cycles call
  raised,       \* TRUE when the last operation raised
  registry,     \* the component registry handed to get_leaf_nodes
  suffixed,     \* whether id NumNodes is id 1 followed by ".__init__"
  lpc,          \* "start", then "first" and "second" after the runs of get_leaf_nodes
  leafScored,   \* first run: the (id, score) list before the final sort
  leafResult,   \* first run: the list get_leaf_nodes returned
  leafAgain,    \* second run: the list get_leaf_nodes returned
  budget,       \* config.max_token_per_module
  maxRetries,   \* the max_retries argument of cluster_modules
  stack,        \* the calls of cluster_modules in progress, innermost last
  path,         \* the list shared as current_module_path
  tree,         \* the dict shared as current_module_tree, one entry per module
  status,       \* "running", "returned", or the exception that ended the call
  result,       \* what the outermost call returned: "empty" or "tree"
  dropped,      \* TRUE once validate_module_tree has dropped an id or a module
  components,   \* the registry handed to build_graph_from_components
  pending,      \* the files of the analysis run not analysed yet
  cur,          \* the file whose syntax tree is being walked, or NoFile
  scopes,       \* the definitions of cur the walk is inside of, innermost last
  current_class_name,    \* PythonASTAnalyzer.current_class_name
  current_function_name, \* PythonASTAnalyzer.current_function_name
  runNodes,     \* the components extracted in this run, in order
  runEdges,     \* the call relationships extracted in this run, in order
  failed,       \* the files whose text could not be parsed
  aborted,      \* TRUE when an analyzer raised to its caller
  candidate,    \* the component handed to calculate_component_importance
  importance,   \* the score it returned, -1 before the call
  retry_config, \* RetryConfig.max_retries of the wrapper, -1 when there is none
  on_retry,     \* the on_retry argument: "None", "callback" or "raising"
  attempt,      \* the loop variable of the wrapper
  last_exception, \* the exception caught last, NoException before
  wpc,          \* where the wrapper stands, or how it ended
  trace,        \* what the wrapper has called so far, in order
  job,          \* the JobStatus stored for the job: status and progress
  jpc,          \* where the background worker of the job stands
  stage,        \* the progress checkpoint of run_analysis the worker is at
  leaf_paths,   \* per entry of leaf_nodes, the directory of its component, <<>> for none
  max_modules,  \* the max_modules argument of suggest_module_structure
  clusters,     \* the dict of clusters being built, in insertion order
  spc,          \* where suggest_module_structure stands
  suggestion    \* the dict it returns, in insertion order

graphVars == <<acyclic, resolveCalls, gop, order, cycles, raised>>

leafVars == <<registry, suffixed, lpc, leafScored, leafResult, leafAgain>>

clusterVars == <<budget, maxRetries, stack, path, tree, status, result, dropped>>

analysisVars == <<components, pending, cur, scopes, current_class_name,
                  current_function_name, runNodes, runEdges, failed, aborted>>

scoringVars == <<candidate, importance>>

retryVars == <<retry_config, on_retry, attempt, last_exception, wpc, trace>>

jobVars == <<job, jpc, stage>>

suggestVars == <<leaf_paths, max_modules, clusters, spc, suggestion>>

serviceVars == <<retryVars, jobVars, suggestVars>>

vars == <<graph, setOrder, graphVars, leafVars, clusterVars, analysisVars, scoringVars,
          serviceVars>>

NoComponents == [keys |-> <<>>, depends_on |-> [n \in Nodes |-> {}]]

NoFile == [module_path |-> <<>>, lang |-> "none"]

AnalyzerIdle ==
  /\ pending = {}
  /\ cur = NoFile
  /\ scopes = <<>>
  /\ current_class_name = "None"
  /\ current_function_name = "None"
  /\ runNodes = <<>>
  /\ runEdges = <<>>
  /\ failed = {}
  /\ aborted = FALSE

AnalysisIdle ==
  /\ components = NoComponents
  /\ AnalyzerIdle

NoCandidate == [in_registry |-> FALSE, used_by_count |-> 0,
                comp |-> [component_type |-> "", name |-> "", documented |-> FALSE, lines |-> 0]]

ScoringIdle ==
  /\ candidate = NoCandidate
  /\ importance = -1

NoException == [type |-> "None", keyword |-> "none"]

RetryIdle ==
  /\ retry_config = -1
  /\ on_retry = "None"
  /\ attempt = 0
  /\ last_exception = NoException
  /\ wpc = "idle"
  /\ trace = <<>>

NoJob == [status |-> "none", progress |-> 0]

JobIdle ==
  /\ job = NoJob
  /\ jpc = "idle"
  /\ stage = 0

SuggestIdle ==
  /\ leaf_paths = <<>>
  /\ max_modules = 0
  /\ clusters = <<>>
  /\ spc = "idle"
  /\ suggestion = <<>>

ServiceIdle == RetryIdle /\ JobIdle /\ SuggestIdle

ClusterIdle ==
  /\ budget = 0
  /\ maxRetries = 0
  /\ stack = <<>>
  /\ path = <<>>
  /\ tree = {}
  /\ status = "idle"
  /\ result = "none"
  /\ dropped = FALSE

NoGraph == [keys |-> <<>>, deps |-> [n \in Nodes |-> {}]]

NoRegistry == [ids |-> {}, comp |-> <<>>, id_keyword |-> <<>>]

GraphIdle ==
  /\ acyclic = graph
  /\ resolveCalls = 0
  /\ gop = "none"
  /\ order = <<>>
  /\ cycles = <<>>
  /\ raised = FALSE

LeafIdle ==
  /\ registry = NoRegistry
  /\ suffixed = FALSE
  /\ lpc = "idle"
  /\ leafScored = <<>>
  /\ leafResult = <<>>
  /\ leafAgain = <<>>

\* ------------------------------------------------------------------------
\* The graph engine: one action per public function
\* ------------------------------------------------------------------------
GraphInit ==
  /\ graph \in Graphs
  /\ setOrder \in Perms(Nodes)
  /\ GraphIdle
  /\ LeafIdle
  /\ ClusterIdle
  /\ AnalysisIdle
  /\ ScoringIdle
  /\ ServiceIdle

DetectCycles ==
  /\ gop = "none"
  /\ cycles' = detect_cycles(graph, setOrder)
  /\ gop' = "detect_cycles"
  /\ UNCHANGED <<graph, setOrder, acyclic, resolveCalls, order, raised, leafVars, clusterVars, analysisVars, scoringVars, serviceVars>>

\* resolve_cycles applied to the result of the previous call (the graph
\* itself at first).
ResolveCycles ==
  /\ gop \in {"none", "resolve_cycles"}
  /\ resolveCalls < MaxResolveCalls
  /\ acyclic' = resolve_cycles(acyclic, setOrder)
  /\ raised' = resolve_cycles_raises(acyclic, setOrder)
  /\ resolveCalls' = resolveCalls + 1
  /\ gop' = "resolve_cycles"
  /\ UNCHANGED <<graph, setOrder, order, cycles, leafVars, clusterVars, analysisVars, scoringVars, serviceVars>>

TopologicalSort ==
  /\ gop = "none"
  /\ order' = topological_sort(graph, setOrder)
  /\ raised' = resolve_cycles_raises(graph, setOrder)
  /\ gop' = "topological_sort"
  /\ UNCHANGED <<graph, setOrder, acyclic, resolveCalls, cycles, leafVars, clusterVars, analysisVars, scoringVars, serviceVars>>

DependencyFirstDfs ==
  /\ gop = "none"
  /\ order' = dependency_first_dfs(graph, setOrder)
  /\ raised' = resolve_cycles_raises(graph, setOrder)
  /\ gop' = "dependency_first_dfs"
  /\ UNCHANGED <<graph, setOrder, acyclic, resolveCalls, cycles, leafVars, clusterVars, analysisVars, scoringVars, serviceVars>>

GraphNext == DetectCycles \/ ResolveCycles \/ TopologicalSort \/ DependencyFirstDfs

SpecGraph == GraphInit /\ [][GraphNext]_vars

\* ------------------------------------------------------------------------
\* Building the graph from a registry
\* ------------------------------------------------------------------------
BuildInit ==
  /\ components \in ComponentRegistries
  /\ graph = NoGraph
  /\ setOrder = Ascending
  /\ AnalyzerIdle
  /\ GraphIdle
  /\ LeafIdle
  /\ ClusterIdle
  /\ ScoringIdle
  /\ ServiceIdle

BuildGraph ==
  /\ gop = "none"
  /\ graph' = build_graph_from_components(components)
  /\ acyclic' = graph'
  /\ gop' = "build_graph_from_components"
  /\ UNCHANGED <<setOrder, resolveCalls, order, cycles, raised, leafVars, clusterVars, analysisVars, scoringVars, serviceVars>>

BuildNext == BuildGraph

SpecBuild == BuildInit /\ [][BuildNext]_vars

\* ------------------------------------------------------------------------
\* The language analyzers: one analysis run over some files.  A file is its
\* module path (the relative path without extension, split at the
\* separators) and its language.  An id is the sequence of the segments that
\* the analyzers join with ".".  The syntax tree of a file is walked in
\* pre-order; the definitions met are chosen as the walk goes on.
\* ------------------------------------------------------------------------
MaxFiles == 2

MaxRunNodes == 3

MaxRunEdges == 2

MaxScopeDepth == 2

ModulePaths == {<<"m">>, <<"m", "A">>}

Files == [module_path : ModulePaths, lang : {"python", "java"}]

DefNames == {"A", "f"}

\* ast.parse on text that is no Python source raises SyntaxError; on text
\* with a null byte ValueError; on text nested too deeply RecursionError or
\* MemoryError.
ParseExceptions == {"SyntaxError", "ValueError", "RecursionError", "MemoryError"}

\* python.py 29-58, java.py 29-42: the module path of the file.
get_module_path(file) == file.module_path

\* python.py 161 and 257: the id of a class or of a function outside classes.
python_component_id(file, name) == get_module_path(file) \o <<name>>

\* java.py 596-604: the name of the nearest enclosing type declaration.
RECURSIVE find_containing_class_name(_, _)
find_containing_class_name(scps, i) ==
  IF i = 0 THEN "None"
  ELSE IF scps[i].kind \in {"class", "interface"} THEN scps[i].name
  ELSE find_containing_class_name(scps, i - 1)

\* java.py 304-336 and 54-59: the id of a type or of a method.
java_component_id(file, kind, name, scps) ==
  IF kind = "method" /\ find_containing_class_name(scps, Len(scps)) # "None"
  THEN get_module_path(file) \o <<find_containing_class_name(scps, Len(scps)), name>>
  ELSE get_module_path(file) \o <<name>>

\* python.py 380-383.
should_include_function(name) == name # "_test_f"

\* python.py 452-459: the deny-list of built-in names, one of them.
PYTHON_BUILTINS == {"len"}

\* python.py 87-127: the names bound by "from pkg import f" at the head of
\* every Python file of the run.
from_imports == [name \in {"f"} |-> <<"pkg", "f">>]

\* python.py 72-85: the names bound by "import os" at the head of every
\* Python file of the run.
imports == [name \in {"os"} |-> <<"os">>]

\* The expressions called in the files: a name, or a receiver and an
\* attribute.
CallNames == {<<"A">>, <<"f">>, <<"self", "f">>, <<"os", "f">>, <<"len">>}

\* python.py 447-475: the segments of the called name, <<>> for None.
get_call_name(func) ==
  IF func[1] \in PYTHON_BUILTINS THEN <<>> ELSE func

\* python.py 129-150: the full path of a name bound by an import, <<>> for
\* None.
resolve_import_reference(name) ==
  IF Len(name) = 1 /\ name[1] \in DOMAIN from_imports THEN from_imports[name[1]]
  ELSE IF name[1] \in DOMAIN imports THEN imports[name[1]] \o Tail(name)
  ELSE <<>>

\* python.py 184 and 301: the keys of top_level_nodes, the names of the
\* nodes the walk of the file has appended so far.
top_level_nodes(nodes, file) ==
  {nodes[i].id[Len(nodes[i].id)] : i \in {j \in DOMAIN nodes : nodes[j].file = file}}

\* python.py 405-434: the callee of a call and whether it is resolved.  The
\* branch of lines 426-430 repeats a lookup that has just returned None.
resolve_call(call_name, top, file, class) ==
  IF Len(call_name) = 1 /\ call_name[1] \in top
  THEN [callee |-> python_component_id(file, call_name[1]), is_resolved |-> TRUE]
  ELSE IF resolve_import_reference(call_name) # <<>>
  THEN [callee |-> resolve_import_reference(call_name), is_resolved |-> FALSE]
  ELSE IF Len(call_name) >= 2 /\ call_name[1] \in {"self", "cls"} /\ class # "None"
  THEN [callee |-> python_component_id(file, class), is_resolved |-> TRUE]
  ELSE [callee |-> call_name, is_resolved |-> FALSE]

\* python.py 186-213: the callee of the edge to a base class.
resolve_base(base, top, file) ==
  IF base \in top
  THEN [callee |-> python_component_id(file, base), is_resolved |-> TRUE]
  ELSE IF resolve_import_reference(<<base>>) # <<>>
  THEN [callee |-> resolve_import_reference(<<base>>), is_resolved |-> FALSE]
  ELSE [callee |-> <<base>>, is_resolved |-> FALSE]

\* python.py 497-500 with the second except clause left out.
analyze_catches_OnlySyntaxError(exc) == exc = "SyntaxError"

\* python.py 497-500: except SyntaxError, then except Exception, of which
\* every exception ast.parse raises is a subclass.
analyze_catches(exc) == exc = "SyntaxError" \/ exc \in ParseExceptions

AnalyzerInit ==
  /\ pending \in {P \in SUBSET Files : P # {} /\ Cardinality(P) <= MaxFiles}
  /\ cur = NoFile
  /\ scopes = <<>>
  /\ current_class_name = "None"
  /\ current_function_name = "None"
  /\ runNodes = <<>>
  /\ runEdges = <<>>
  /\ failed = {}
  /\ aborted = FALSE
  /\ components = NoComponents
  /\ graph = NoGraph
  /\ setOrder = Ascending
  /\ GraphIdle
  /\ LeafIdle
  /\ ScoringIdle
  /\ ServiceIdle
  /\ ClusterIdle

analyzerRest == <<components, graph, setOrder, graphVars, leafVars, clusterVars, scoringVars, serviceVars>>

\* The run takes its files one after another, in any order.  The text of
\* the next file parses: a new analyzer starts its walk.
StartFile ==
  /\ ~aborted
  /\ cur = NoFile
  /\ \E file \in pending : cur' = file
  /\ scopes' = <<>>
  /\ current_class_name' = "None"
  /\ current_function_name' = "None"
  /\ UNCHANGED <<pending, runNodes, runEdges, failed, aborted, analyzerRest>>

\* python.py 477-500 and 515-532: ast.parse raises on the text of the file.
ParseFails ==
  /\ ~aborted
  /\ cur = NoFile
  /\ \E file \in pending, exc \in ParseExceptions :
       /\ file.lang = "python"
       /\ IF analyze_catches(exc)
          THEN /\ pending' = pending \ {file}
               /\ failed' = failed \cup {file}
               /\ UNCHANGED aborted
          ELSE /\ aborted' = TRUE
               /\ UNCHANGED <<pending, failed>>
  /\ UNCHANGED <<cur, scopes, current_class_name, current_function_name,
                 runNodes, runEdges, analyzerRest>>

\* python.py 152-216: a class definition, with or without a base class.
VisitClassDef ==
  /\ cur.lang = "python"
  /\ Len(scopes) < MaxScopeDepth
  /\ Len(runNodes) < MaxRunNodes
  /\ \E name \in DefNames, base \in DefNames \cup {"None"} :
       LET component_id == python_component_id(cur, name)
       IN /\ runNodes' = Append(runNodes, [id |-> component_id, file |-> cur,
                                           component_type |-> "class"])
          /\ IF base # "None" /\ Len(runEdges) < MaxRunEdges
             THEN runEdges' = Append(runEdges,
                    [caller |-> component_id, call_name |-> <<base>>, kind |-> "base",
                     class_name |-> current_class_name, file |-> cur,
                     known |-> top_level_nodes(runNodes', cur),
                     callee |-> resolve_base(base, top_level_nodes(runNodes', cur), cur).callee,
                     is_resolved |-> resolve_base(base, top_level_nodes(runNodes', cur), cur).is_resolved])
             ELSE UNCHANGED runEdges
          /\ scopes' = Append(scopes, [kind |-> "class", name |-> name])
          /\ current_class_name' = name
  /\ UNCHANGED <<pending, cur, current_function_name, failed, aborted, analyzerRest>>

\* python.py 253-308: a function definition.
VisitFunctionDef ==
  /\ cur.lang = "python"
  /\ Len(scopes) < MaxScopeDepth
  /\ \E name \in DefNames \cup {"_test_f"} :
       /\ IF current_class_name = "None" /\ should_include_function(name)
          THEN /\ Len(runNodes) < MaxRunNodes
               /\ runNodes' = Append(runNodes, [id |-> python_component_id(cur, name),
                                                file |-> cur, component_type |-> "function"])
          ELSE UNCHANGED runNodes
       /\ scopes' = Append(scopes, [kind |-> "function", name |-> name])
       /\ current_function_name' = name
  /\ UNCHANGED <<pending, cur, current_class_name, runEdges, failed, aborted, analyzerRest>>

\* python.py 393-445: a call inside a class or a function.  A call of a
\* name on the deny-list has no call name and adds nothing.
VisitCall ==
  /\ cur.lang = "python"
  /\ current_class_name # "None" \/ current_function_name # "None"
  /\ Len(runEdges) < MaxRunEdges
  /\ \E func \in CallNames :
       LET call_name == get_call_name(func)
           caller_id == IF current_class_name # "None"
                        THEN python_component_id(cur, current_class_name)
                        ELSE python_component_id(cur, current_function_name)
           target == resolve_call(call_name, top_level_nodes(runNodes, cur), cur,
                                  current_class_name)
       IN IF call_name = <<>>
          THEN UNCHANGED runEdges
          ELSE runEdges' = Append(runEdges,
                 [caller |-> caller_id, call_name |-> call_name, kind |-> "call",
                  class_name |-> current_class_name, file |-> cur,
                  known |-> top_level_nodes(runNodes, cur),
                  callee |-> target.callee, is_resolved |-> target.is_resolved])
  /\ UNCHANGED <<pending, cur, scopes, current_class_name, current_function_name,
                 runNodes, failed, aborted, analyzerRest>>

\* python.py 214-216 and 306-308: the walk leaves a definition; the field is
\* reset to None, whatever it was when the definition was entered.
LeaveDef ==
  /\ cur.lang = "python"
  /\ scopes # <<>>
  /\ scopes' = SubSeq(scopes, 1, Len(scopes) - 1)
  /\ IF scopes[Len(scopes)].kind = "class"
     THEN current_class_name' = "None" /\ UNCHANGED current_function_name
     ELSE current_function_name' = "None" /\ UNCHANGED current_class_name
  /\ UNCHANGED <<pending, cur, runNodes, runEdges, failed, aborted, analyzerRest>>

\* java.py 255-354: a type declaration or a method declaration, then its
\* children.
ExtractJavaNode ==
  /\ cur.lang = "java"
  /\ Len(scopes) < MaxScopeDepth
  /\ Len(runNodes) < MaxRunNodes
  /\ \E kind \in {"class", "interface", "method"}, name \in DefNames :
       /\ runNodes' = Append(runNodes, [id |-> java_component_id(cur, kind, name, scopes),
                                        file |-> cur, component_type |-> kind])
       /\ scopes' = Append(scopes, [kind |-> kind, name |-> name])
  /\ UNCHANGED <<pending, cur, current_class_name, current_function_name, runEdges,
                 failed, aborted, analyzerRest>>

\* java.py 352-354: the children of a declaration are done.
LeaveJavaNode ==
  /\ cur.lang = "java"
  /\ scopes # <<>>
  /\ scopes' = SubSeq(scopes, 1, Len(scopes) - 1)
  /\ UNCHANGED <<pending, cur, current_class_name, current_function_name, runNodes,
                 runEdges, failed, aborted, analyzerRest>>

\* The walk of the file is over and the analyzer returns its lists.
EndFile ==
  /\ cur # NoFile
  /\ scopes = <<>>
  /\ pending' = pending \ {cur}
  /\ cur' = NoFile
  /\ current_class_name' = "None"
  /\ current_function_name' = "None"
  /\ UNCHANGED <<scopes, runNodes, runEdges, failed, aborted, analyzerRest>>

AnalyzerNext ==
  \/ StartFile
  \/ ParseFails
  \/ VisitClassDef
  \/ VisitFunctionDef
  \/ VisitCall
  \/ LeaveDef
  \/ ExtractJavaNode
  \/ LeaveJavaNode
  \/ EndFile

SpecAnalysis == AnalyzerInit /\ [][AnalyzerNext]_vars

\* ------------------------------------------------------------------------
\* The candidate selector: get_leaf_nodes run twice on one graph and one
\* registry.  String hashing is seeded per interpreter process, so the
\* second run may iterate its sets in another order than the first.
\* ------------------------------------------------------------------------
\* ------------------------------------------------------------------------
\* calculate_component_importance on its own: one call for a component of
\* any kind, name, documentation and length, with 0..MaxDependents graph
\* entries that hold its id, or for an id that is not in the registry.
\* ------------------------------------------------------------------------
MaxDependents == 7

ScoredKinds == {"class", "interface", "struct", "enum", "function"}

LineCounts == {1, 4, 5, 9, 10, 200, 201}

Candidates ==
  [in_registry : BOOLEAN, used_by_count : 0..MaxDependents,
   comp : [component_type : ScoredKinds, name : ComponentNames,
           documented : BOOLEAN, lines : LineCounts]]

ImportanceInit ==
  /\ candidate \in Candidates
  /\ importance = -1
  /\ graph = NoGraph
  /\ setOrder = Ascending
  /\ GraphIdle
  /\ LeafIdle
  /\ ClusterIdle
  /\ AnalysisIdle
  /\ ServiceIdle

CalculateComponentImportance ==
  /\ importance = -1
  /\ importance' = IF ~candidate.in_registry THEN 0
                   ELSE ImportanceScore(candidate.comp, candidate.used_by_count)
  /\ UNCHANGED <<candidate, graph, setOrder, graphVars, leafVars, clusterVars, analysisVars,
                 serviceVars>>

ImportanceNext == CalculateComponentImportance

SpecImportance == ImportanceInit /\ [][ImportanceNext]_vars

LeafInit ==
  /\ graph \in LeafGraphs
  /\ setOrder \in Perms(Nodes)
  /\ suffixed \in BOOLEAN
  /\ \E inp \in [Nodes -> LeafInputs] :
       /\ endswith_init(NumNodes, suffixed) => inp[NumNodes].id_keyword = inp[1].id_keyword
       /\ registry = [ids |-> KeySet(graph), comp |-> [n \in Nodes |-> inp[n].comp],
                      id_keyword |-> [n \in Nodes |-> inp[n].id_keyword]]
  /\ lpc = "start"
  /\ leafScored = <<>>
  /\ leafResult = <<>>
  /\ leafAgain = <<>>
  /\ GraphIdle
  /\ ClusterIdle
  /\ AnalysisIdle
  /\ ScoringIdle
  /\ ServiceIdle

GetLeafNodes ==
  /\ lpc = "start"
  /\ leafScored' = ScoredLeafNodes(graph, registry, setOrder, suffixed)
  /\ leafResult' = get_leaf_nodes(graph, registry, setOrder, suffixed)
  /\ lpc' = "first"
  /\ UNCHANGED <<graph, setOrder, graphVars, registry, suffixed, leafAgain, clusterVars, analysisVars, scoringVars, serviceVars>>

GetLeafNodesAgain ==
  /\ lpc = "first"
  /\ \E ord \in Perms(Nodes) :
       /\ setOrder' = ord
       /\ leafAgain' = get_leaf_nodes(graph, registry, ord, suffixed)
  /\ lpc' = "second"
  /\ UNCHANGED <<graph, graphVars, registry, suffixed, leafScored, leafResult, clusterVars, analysisVars, scoringVars, serviceVars>>

LeafNext == GetLeafNodes \/ GetLeafNodesAgain

SpecLeaf == LeafInit /\ [][LeafNext]_vars

\* ------------------------------------------------------------------------
\* The module partitioner: one outermost call of cluster_modules with the
\* default current_module_tree and current_module_path, taken step by step
\* between its oracle calls, recursive calls and returns.
\* ------------------------------------------------------------------------
\* The job the partitioner runs for: its record, and the cancel request of
\* the owner, which may come between any two steps of the worker.
JobRecord(st, pr) == [status |-> st, progress |-> pr]

\* jobs.py 34-36.
is_job_canceled == job.status = "canceled"

restOfJob == <<graph, setOrder, graphVars, leafVars, clusterVars, analysisVars, scoringVars,
               retryVars, suggestVars>>

\* routes.py 198-212: the cancel request of the owner.
CancelRepoJob ==
  /\ job # NoJob
  /\ job' = JobRecord("canceled", 0)
  /\ UNCHANGED <<jpc, stage, restOfJob>>

Top == stack[Len(stack)]

SetTop(f) == [stack EXCEPT ![Len(stack)] = f]

otherVars == <<graph, setOrder, graphVars, leafVars, analysisVars, scoringVars, serviceVars>>

Init ==
  /\ budget \in 0..MaxBudget
  /\ maxRetries \in 0..MaxMaxRetries
  /\ \E leaf_nodes \in SUBSET (Components \cup {ForeignId}) : stack = <<NewFrame(leaf_nodes)>>
  /\ path = <<>>
  /\ tree = {}
  /\ status = "running"
  /\ result = "none"
  /\ dropped = FALSE
  /\ graph = NoGraph
  /\ setOrder = Ascending
  /\ GraphIdle
  /\ LeafIdle
  /\ AnalysisIdle
  /\ ScoringIdle
  /\ RetryIdle
  /\ SuggestIdle
  /\ job = [status |-> "running", progress |-> 50]
  /\ jpc = "work"
  /\ stage = 6

\* Line 446 with < in place of <=.
WithinBudget_Strict(tokens, max_token_per_module) == tokens < max_token_per_module

\* Line 446.
WithinBudget(tokens, max_token_per_module) == tokens <= max_token_per_module

\* Lines 446-463: the budget check.
BudgetCheck ==
  /\ status = "running"
  /\ Top.pc = "enter"
  /\ stack' = SetTop(IF WithinBudget(TokensOf(Top.leaf_nodes), budget)
                     THEN [Top EXCEPT !.pc = "return", !.ret = "empty"]
                     ELSE [Top EXCEPT !.pc = IF AttemptLimit(maxRetries) > 0
                                              THEN "attempt" ELSE "after"])
  /\ UNCHANGED <<budget, maxRetries, path, tree, status, result, dropped, otherVars>>

\* TRUE when validate_module_tree drops something of the parsed tree.
DropsSomething(parsed_tree) ==
  \E n \in ModuleNames :
    \/ parsed_tree[n].kind = "notdict"
    \/ /\ parsed_tree[n].kind = "dict"
       /\ \/ ~(parsed_tree[n].components \subseteq Components)
          \/ parsed_tree[n].components \cap Components = {}

\* Lines 465-501: one pass of the retry loop, with the oracle's answer.
OracleAttempt ==
  /\ status = "running"
  /\ Top.pc = "attempt"
  /\ \E response \in OracleResponses :
       LET validated == validate_module_tree(response.tree)
           accepted == response.kind = "dict" /\ validated # EmptyTree
           f1 == [Top EXCEPT !.calls = @ + 1, !.attempt = @ + 1,
                             !.raises = IF response.kind = "raise" THEN @ + 1 ELSE @]
           f2 == IF response.kind = "dict"
                 THEN [f1 EXCEPT !.module_tree = validated, !.parsed = TRUE]
                 ELSE f1
           f3 == IF accepted \/ f2.attempt >= AttemptLimit(maxRetries)
                 THEN [f2 EXCEPT !.pc = "after"]
                 ELSE f2
       IN /\ stack' = SetTop(f3)
          /\ dropped' = (dropped \/ (response.kind = "dict" /\ DropsSomething(response.tree)))
  /\ UNCHANGED <<budget, maxRetries, path, tree, status, result, otherVars>>

\* Lines 518-519: TRUE when walking current_module_path finds every key.
PathExists == \A k \in 1..Len(path) : \E e \in tree : e.path = SubSeq(path, 1, k)

NewEntries(module_tree, at, has_path) ==
  {[path |-> Append(at, n), components |-> module_tree[n], has_path |-> has_path] :
     n \in {m \in ModuleNames : module_tree[m] # {}}}

\* Lines 503-524: after the loop; no split, or the merge into the shared tree.
AfterRetries ==
  /\ status = "running"
  /\ Top.pc = "after"
  /\ IF ~Top.parsed \/ Len(ModulesOf(Top.module_tree)) <= 1
     THEN /\ stack' = SetTop([Top EXCEPT !.pc = "return", !.ret = "empty"])
          /\ UNCHANGED <<tree, status>>
     ELSE IF tree = {}
     THEN /\ tree' = NewEntries(Top.module_tree, <<>>, TRUE)
          /\ stack' = SetTop([Top EXCEPT !.pc = "recurse", !.pos = 1])
          /\ UNCHANGED status
     ELSE IF PathExists
     THEN /\ tree' = {e \in tree : \A n \in Range(ModulesOf(Top.module_tree)) :
                                      ~IsPrefix(Append(path, n), e.path)}
                       \cup NewEntries(Top.module_tree, path, FALSE)
          /\ stack' = SetTop([Top EXCEPT !.pc = "recurse", !.pos = 1])
          /\ UNCHANGED status
     ELSE /\ status' = "KeyError"
          /\ UNCHANGED <<tree, stack>>
  /\ UNCHANGED <<budget, maxRetries, path, result, dropped, otherVars>>

\* Lines 527-541: the recursive call for the next child.  When the calls
\* already nest as deep as the interpreter allows, the RecursionError is
\* raised either outside the child's try block, and then no caller catches
\* it, or inside it, and then each of the child's attempts fails and the
\* child returns {}: which one depends on the stack depth of the callees.
RecurseChild ==
  /\ status = "running"
  /\ Top.pc = "recurse"
  /\ Top.pos <= Len(ModulesOf(Top.module_tree))
  /\ LET module_name == ModulesOf(Top.module_tree)[Top.pos]
         child_path == Append(path, module_name)
         children_cleared == {e \in tree : ~(IsPrefix(child_path, e.path) /\ e.path # child_path)}
     IN /\ tree' = children_cleared
        /\ IF Len(stack) < RecursionLimit
           THEN /\ stack' = Append(stack, NewFrame(Top.module_tree[module_name]))
                /\ path' = child_path
                /\ UNCHANGED status
           ELSE \/ /\ status' = "RecursionError"
                   /\ path' = child_path
                   /\ UNCHANGED stack
                \/ /\ stack' = SetTop([Top EXCEPT !.pos = @ + 1])
                   /\ UNCHANGED <<status, path>>
  /\ UNCHANGED <<budget, maxRetries, result, dropped, otherVars>>

\* Lines 533-542: the recursive call returns; its value becomes the child's
\* children and the child's name is popped from the path.
ReturnToParent ==
  /\ status = "running"
  /\ Len(stack) > 1
  /\ Top.pc = "return"
  /\ tree' = IF Top.ret = "empty"
             THEN {e \in tree : ~(IsPrefix(path, e.path) /\ e.path # path)}
             ELSE tree
  /\ path' = SubSeq(path, 1, Len(path) - 1)
  /\ stack' = [SubSeq(stack, 1, Len(stack) - 1) EXCEPT ![Len(stack) - 1].pos = @ + 1]
  /\ UNCHANGED <<budget, maxRetries, status, result, dropped, otherVars>>

\* Line 544: every child is done.
ReturnModuleTree ==
  /\ status = "running"
  /\ Top.pc = "recurse"
  /\ Top.pos > Len(ModulesOf(Top.module_tree))
  /\ stack' = SetTop([Top EXCEPT !.pc = "return", !.ret = "tree"])
  /\ UNCHANGED <<budget, maxRetries, path, tree, status, result, dropped, otherVars>>

\* The outermost call returns to its caller.
ReturnToCaller ==
  /\ status = "running"
  /\ Len(stack) = 1
  /\ Top.pc = "return"
  /\ status' = "returned"
  /\ result' = Top.ret
  /\ UNCHANGED <<budget, maxRetries, stack, path, tree, dropped, otherVars>>

Next ==
  \/ BudgetCheck
  \/ OracleAttempt
  \/ AfterRetries
  \/ RecurseChild
  \/ ReturnToParent
  \/ ReturnModuleTree
  \/ ReturnToCaller
  \/ CancelRepoJob

Spec == Init /\ [][Next]_vars

\* ------------------------------------------------------------------------
\* retry_with_backoff (llm_services.py): one call of the wrapper.  An
\* invocation of func returns or raises one of Exceptions; an exception is
\* described by its type and by the keyword of RETRYABLE_ERROR_KEYWORDS its
\* lower-cased message contains ("none" when it contains none).  on_retry
\* is absent, a callback that returns, or a callback that raises.
\* ------------------------------------------------------------------------
MaxRetries == 2

RETRYABLE_EXCEPTIONS == {"ConnectionError", "TimeoutError"}

RETRYABLE_ERROR_KEYWORDS ==
  {"rate limit", "timeout", "connection", "server error", "503", "502", "500", "429",
   "overloaded", "capacity"}

Exceptions ==
  {[type |-> "ConnectionError", keyword |-> "none"],
   [type |-> "TimeoutError", keyword |-> "timeout"],
   [type |-> "RuntimeError", keyword |-> "rate limit"],
   [type |-> "ValueError", keyword |-> "none"]}

\* Every exception taken for retryable.
is_retryable_error_Always(exception) == TRUE

\* Lines 69-89.
is_retryable_error(exception) ==
  \/ exception.type \in RETRYABLE_EXCEPTIONS
  \/ exception.keyword \in RETRYABLE_ERROR_KEYWORDS

restOfRetry == <<graph, setOrder, graphVars, leafVars, clusterVars, analysisVars, scoringVars,
                 jobVars, suggestVars>>

RetryInit ==
  /\ retry_config \in 0..MaxRetries
  /\ on_retry \in {"None", "callback", "raising"}
  /\ attempt = 0
  /\ last_exception = NoException
  /\ wpc = IF 0 < retry_config + 1 THEN "try" ELSE "exhausted"
  /\ trace = <<>>
  /\ graph = NoGraph
  /\ setOrder = Ascending
  /\ GraphIdle
  /\ LeafIdle
  /\ ClusterIdle
  /\ AnalysisIdle
  /\ ScoringIdle
  /\ JobIdle
  /\ SuggestIdle

\* Line 144: func returns; the wrapper returns its result.
FuncReturns ==
  /\ wpc = "try"
  /\ trace' = Append(trace, [call |-> "func", exc |-> NoException])
  /\ wpc' = "returned"
  /\ UNCHANGED <<retry_config, on_retry, attempt, last_exception, restOfRetry>>

\* Lines 145-146: func raises.
FuncRaises ==
  /\ wpc = "try"
  /\ \E e \in Exceptions :
       /\ trace' = Append(trace, [call |-> "func", exc |-> e])
       /\ last_exception' = e
  /\ wpc' = "except"
  /\ UNCHANGED <<retry_config, on_retry, attempt, restOfRetry>>

\* Lines 148-156: the two bare raise statements, or on to the retry.
CheckRetry ==
  /\ wpc = "except"
  /\ wpc' = IF ~is_retryable_error(last_exception) THEN "raised"
            ELSE IF attempt >= retry_config THEN "raised"
            ELSE "on_retry"
  /\ UNCHANGED <<retry_config, on_retry, attempt, last_exception, trace, restOfRetry>>

\* Lines 158-163: the delay is calculated and the callback called.
CallOnRetry ==
  /\ wpc = "on_retry"
  /\ IF on_retry = "None"
     THEN /\ wpc' = "sleep"
          /\ UNCHANGED trace
     ELSE /\ trace' = Append(trace, [call |-> "on_retry", exc |-> last_exception])
          /\ wpc' = IF on_retry = "raising" THEN "on_retry raised" ELSE "sleep"
  /\ UNCHANGED <<retry_config, on_retry, attempt, last_exception, restOfRetry>>

\* Lines 165-170, 143: time.sleep, then the next pass of the loop.
Sleep ==
  /\ wpc = "sleep"
  /\ trace' = Append(trace, [call |-> "sleep", exc |-> NoException])
  /\ attempt' = attempt + 1
  /\ wpc' = IF attempt + 1 < retry_config + 1 THEN "try" ELSE "exhausted"
  /\ UNCHANGED <<retry_config, on_retry, last_exception, restOfRetry>>

RetryNext == FuncReturns \/ FuncRaises \/ CheckRetry \/ CallOnRetry \/ Sleep

SpecRetry == RetryInit /\ [][RetryNext]_vars

\* ------------------------------------------------------------------------
\* The job of a repository (backend/app): the record kept by set_job, the
\* cancel request, and the background worker run_ingest with run_analysis
\* inside it.  Every set_job and every get_job is one step (they take the
\* lock); the cancel request may come between any two steps of the worker.
\* Checkpoints are the progress values of the update_progress calls of
\* run_analysis that are followed by ensure_not_canceled.
\* ------------------------------------------------------------------------
Checkpoints == <<20, 25, 30, 40, 45, 50, 75, 80, 85, 90, 95>>

\* The checkpoints whose work reports progress through a callback
\* (_on_parse_progress after 30, _on_doc_progress after 50).
CallbackStages == {3, 6}

JobInit ==
  /\ job = JobRecord("queued", 0)
  /\ jpc = "start"
  /\ stage = 0
  /\ graph = NoGraph
  /\ setOrder = Ascending
  /\ GraphIdle
  /\ LeafIdle
  /\ ClusterIdle
  /\ AnalysisIdle
  /\ ScoringIdle
  /\ RetryIdle
  /\ SuggestIdle

\* routes.py 145-147: the first test of the worker.
IngestStart ==
  /\ jpc = "start"
  /\ jpc' = IF is_job_canceled THEN "set canceled" ELSE "set cloning"
  /\ UNCHANGED <<job, stage, restOfJob>>

\* routes.py 146-147.
IngestCanceled ==
  /\ jpc = "set canceled"
  /\ job' = JobRecord("canceled", 0)
  /\ jpc' = "done"
  /\ UNCHANGED <<stage, restOfJob>>

\* routes.py 148-149: the status before and during ingest_repo.
IngestClone ==
  /\ jpc = "set cloning"
  /\ job' = JobRecord("running", 5)
  /\ jpc' = "set ready"
  /\ UNCHANGED <<stage, restOfJob>>

\* routes.py 150-165: the repository is ready and run_analysis is entered.
IngestReady ==
  /\ jpc = "set ready"
  /\ job' = JobRecord("running", 15)
  /\ jpc' = "update_progress"
  /\ stage' = 1
  /\ UNCHANGED restOfJob

\* analysis.py 100-102: update_progress at a checkpoint.
UpdateProgress ==
  /\ jpc = "update_progress"
  /\ job' = JobRecord("running", Checkpoints[stage])
  /\ jpc' = "ensure_not_canceled"
  /\ UNCHANGED <<stage, restOfJob>>

\* analysis.py 104-105: the test of ensure_not_canceled.
EnsureNotCanceled ==
  /\ jpc = "ensure_not_canceled"
  /\ jpc' = IF is_job_canceled THEN "cancel seen" ELSE "work"
  /\ UNCHANGED <<job, stage, restOfJob>>

\* analysis.py 106-107: update_progress(0, ...) and the RuntimeError.
CancelSeen ==
  /\ jpc = "cancel seen"
  /\ job' = JobRecord("running", 0)
  /\ jpc' = "raised"
  /\ UNCHANGED <<stage, restOfJob>>

\* analysis.py 142-153, 183-193: a progress callback during the work.
ProgressCallback ==
  /\ jpc = "work"
  /\ stage \in CallbackStages
  /\ \E step \in {1, 5} :
       /\ job.progress # Checkpoints[stage] + step
       /\ job' = JobRecord("running", Checkpoints[stage] + step)
  /\ UNCHANGED <<jpc, stage, restOfJob>>

\* The work after a checkpoint ends: the next checkpoint, or the return of
\* run_analysis after the last one.
WorkDone ==
  /\ jpc = "work"
  /\ IF stage < Len(Checkpoints)
     THEN jpc' = "update_progress" /\ stage' = stage + 1
     ELSE jpc' = "set success" /\ UNCHANGED stage
  /\ UNCHANGED <<job, restOfJob>>

\* The work after a checkpoint raises.
WorkRaises ==
  /\ jpc = "work"
  /\ jpc' = "raised"
  /\ UNCHANGED <<job, stage, restOfJob>>

\* routes.py 166.
IngestSuccess ==
  /\ jpc = "set success"
  /\ job' = JobRecord("success", 100)
  /\ jpc' = "done"
  /\ UNCHANGED <<stage, restOfJob>>

\* routes.py 168-169: the except clause of run_ingest.
IngestFailed ==
  /\ jpc = "raised"
  /\ job' = JobRecord("failed", 100)
  /\ jpc' = "done"
  /\ UNCHANGED <<stage, restOfJob>>

JobNext ==
  \/ CancelRepoJob
  \/ IngestStart
  \/ IngestCanceled
  \/ IngestClone
  \/ IngestReady
  \/ UpdateProgress
  \/ EnsureNotCanceled
  \/ CancelSeen
  \/ ProgressCallback
  \/ WorkDone
  \/ WorkRaises
  \/ IngestSuccess
  \/ IngestFailed

SpecJob == JobInit /\ [][JobNext]_vars

\* ------------------------------------------------------------------------
\* The directory pre-clustering: suggest_module_structure on one list of
\* candidates.  A directory name is the sequence of its segments (the parts
\* between "/"), a segment the sequence of its parts between "_": the
\* directory a_b is <<<<"a", "b">>>>, the directory a/b is <<<<"a">>, <<"b">>>>.
\* No name of the layouts holds a ".".  A dict is the sequence of its
\* entries in insertion order.
\* ------------------------------------------------------------------------
NumLeaves == 4

MaxModules == 3

LeafIds == 1..NumLeaves

NoPath == <<>>

Dirs == {<<<<"root">>>>, <<<<"a">>>>, <<<<"a">>, <<"b">>>>, <<<<"a">>, <<"c">>>>, <<<<"a", "b">>>>}

\* dict[key], <<>> when the key is absent.
Members(d, key) ==
  IF \E i \in DOMAIN d : d[i].name = key
  THEN d[CHOOSE i \in DOMAIN d : d[i].name = key].members
  ELSE <<>>

HasKey(d, key) == \E i \in DOMAIN d : d[i].name = key

\* dict[key] = members: an existing key keeps its place and loses its old
\* value, a new key goes to the end.
Put(d, key, members) ==
  IF HasKey(d, key)
  THEN [i \in DOMAIN d |-> IF d[i].name = key THEN [name |-> key, members |-> members] ELSE d[i]]
  ELSE Append(d, [name |-> key, members |-> members])

\* del dict[key].
Del(d, key) == SelectSeq(d, LAMBDA e : e.name # key)

\* cluster_modules.py 153-169: the loop of pre_cluster_by_directory over the
\* entries of leaf_nodes from entry i on.
RECURSIVE pre_cluster_from(_, _, _)
pre_cluster_from(paths, i, d) ==
  IF i > Len(paths) THEN d
  ELSE IF paths[i] = NoPath THEN pre_cluster_from(paths, i + 1, d)
  ELSE pre_cluster_from(paths, i + 1, Put(d, paths[i], Append(Members(d, paths[i]), i)))

\* cluster_modules.py 129-171.
pre_cluster_by_directory(paths) == pre_cluster_from(paths, 1, <<>>)

\* cluster_modules.py 253-259: the nearest proper prefix of the name that is
\* a key of result, <<>> when there is none.
RECURSIVE parent_in_result(_, _, _)
parent_in_result(result_d, name, i) ==
  IF i = 0 THEN <<>>
  ELSE IF HasKey(result_d, SubSeq(name, 1, i)) THEN SubSeq(name, 1, i)
  ELSE parent_in_result(result_d, name, i - 1)

\* cluster_modules.py 249-267: the loop over the small clusters from entry
\* i on.
RECURSIVE merge_small_from(_, _, _)
merge_small_from(small, i, result_d) ==
  IF i > Len(small) THEN result_d
  ELSE LET name == small[i].name
           parent_path == parent_in_result(result_d, name, Len(name) - 1)
       IN IF parent_path # <<>>
          THEN merge_small_from(small, i + 1,
                 Put(result_d, parent_path, Members(result_d, parent_path) \o small[i].members))
          ELSE merge_small_from(small, i + 1,
                 Put(result_d, name, Members(result_d, name) \o small[i].members))

\* cluster_modules.py 215-269.
merge_small_clusters(d, min_size) ==
  merge_small_from(SelectSeq(d, LAMBDA e : Len(e.members) < min_size), 1,
                   SelectSeq(d, LAMBDA e : Len(e.members) >= min_size))

\* cluster_modules.py 299: the place in the dict of entry k of the list
\* sorted by size; sorted is stable.
SortedIndex(d, k) ==
  CHOOSE i \in DOMAIN d :
    Cardinality({j \in DOMAIN d : \/ Len(d[j].members) < Len(d[i].members)
                                  \/ Len(d[j].members) = Len(d[i].members) /\ j < i}) = k - 1

\* cluster_modules.py 307-314: the segments two names share from the start.
RECURSIVE common_prefix(_, _)
common_prefix(parts1, parts2) ==
  IF parts1 = <<>> \/ parts2 = <<>> \/ Head(parts1) # Head(parts2) THEN <<>>
  ELSE <<Head(parts1)>> \o common_prefix(Tail(parts1), Tail(parts2))

\* cluster_modules.py 316: f"{name1}_and_{name2}".
and_name(name1, name2) ==
  SubSeq(name1, 1, Len(name1) - 1)
    \o <<name1[Len(name1)] \o <<"and">> \o name2[1]>>
    \o Tail(name2)

\* cluster_modules.py 316.
new_name(name1, name2) ==
  IF common_prefix(name1, name2) # <<>> THEN common_prefix(name1, name2)
  ELSE and_name(name1, name2)

\* cluster_modules.py 299-320: one pass of the while loop.
merge_two_smallest(d) ==
  LET e1 == d[SortedIndex(d, 1)]
      e2 == d[SortedIndex(d, 2)]
  IN Put(Del(Del(d, e1.name), e2.name), new_name(e1.name, e2.name), e1.members \o e2.members)

\* cluster_modules.py 326: dir_path.replace('/', '_').replace('.', '_'), the
\* parts of the name between "_".
RECURSIVE module_name(_)
module_name(dir_path) ==
  IF dir_path = <<>> THEN <<>> ELSE Head(dir_path) \o module_name(Tail(dir_path))

\* cluster_modules.py 324-340: the loop over the clusters from entry i on.
\* The density of a module is left out; it reads the dependency edges only.
RECURSIVE to_module_tree(_, _, _)
to_module_tree(d, i, result_d) ==
  IF i > Len(d) THEN result_d
  ELSE to_module_tree(d, i + 1,
         Put(result_d, module_name(d[i].name), [path |-> d[i].name, components |-> d[i].members]))

SuggestInit ==
  /\ leaf_paths \in [LeafIds -> Dirs \cup {NoPath}]
  /\ max_modules \in 1..MaxModules
  /\ clusters = <<>>
  /\ spc = "start"
  /\ suggestion = <<>>
  /\ graph = NoGraph
  /\ setOrder = Ascending
  /\ GraphIdle
  /\ LeafIdle
  /\ ClusterIdle
  /\ AnalysisIdle
  /\ ScoringIdle
  /\ RetryIdle
  /\ JobIdle

restOfSuggest == <<graph, setOrder, graphVars, leafVars, clusterVars, analysisVars, scoringVars,
                   retryVars, jobVars>>

\* cluster_modules.py 291.
PreCluster ==
  /\ spc = "start"
  /\ clusters' = pre_cluster_by_directory(leaf_paths)
  /\ spc' = "pre_clustered"
  /\ UNCHANGED <<leaf_paths, max_modules, suggestion, restOfSuggest>>

\* cluster_modules.py 294.
MergeSmall ==
  /\ spc = "pre_clustered"
  /\ clusters' = merge_small_clusters(clusters, 2)
  /\ spc' = "loop"
  /\ UNCHANGED <<leaf_paths, max_modules, suggestion, restOfSuggest>>

\* cluster_modules.py 297-320: one pass of the loop.  With max_modules >= 1
\* the dict has two entries or more here, and the break of line 302 is not
\* taken.
MergeStep ==
  /\ spc = "loop"
  /\ Len(clusters) > max_modules
  /\ clusters' = merge_two_smallest(clusters)
  /\ UNCHANGED <<leaf_paths, max_modules, spc, suggestion, restOfSuggest>>

\* cluster_modules.py 297 and 322-342: the loop is left and the result is
\* built and returned.
SuggestReturn ==
  /\ spc = "loop"
  /\ Len(clusters) <= max_modules
  /\ suggestion' = to_module_tree(clusters, 1, <<>>)
  /\ spc' = "done"
  /\ UNCHANGED <<leaf_paths, max_modules, clusters, restOfSuggest>>

SuggestNext ==
  \/ PreCluster
  \/ MergeSmall
  \/ MergeStep
  \/ SuggestReturn

SpecSuggest == SuggestInit /\ [][SuggestNext]_vars

\* ------------------------------------------------------------------------
\* Properties of the graph engine (checked under SpecGraph)
\* ------------------------------------------------------------------------

\* C1: after one call of resolve_cycles, detect_cycles finds no cycle in the
\* returned graph (resolution is complete, so a second call changes nothing).
C1_ResolveComplete ==
  gop = "resolve_cycles" => detect_cycles(acyclic, setOrder) = <<>>

\* Scenario A of the specification: {A:{B}, B:{A}, D:{A}} with A, B, D = 1, 2, 3.
ScenarioA == [keys |-> <<1, 2, 3>>, deps |-> <<{2}, {1}, {1}>>]

Precedes(s, x, y) == IndexOf(s, x) # 0 /\ IndexOf(s, y) # 0 /\ IndexOf(s, x) < IndexOf(s, y)

\* C2: topological_sort lists dependencies before dependents: on an acyclic
\* graph the result has one entry per node and every edge A -> B has B before
\* A; on scenario A the result is a permutation with A before D in which A
\* and B are ordered as the edge that resolve_cycles left between them.
C2_DependenciesFirst ==
  gop = "topological_sort" =>
    /\ IsAcyclic(graph) =>
         /\ Len(order) = Len(graph.keys)
         /\ \A e \in Edges(graph) : Precedes(order, e[2], e[1])
    /\ graph = ScenarioA =>
         /\ IsPermutationOf(order, {1, 2, 3})
         /\ Precedes(order, 1, 3)
         /\ \A e \in Edges(resolve_cycles(graph, setOrder)) :
              e[1] \in {1, 2} /\ e[2] \in {1, 2} => Precedes(order, e[2], e[1])

C8_Deterministic ==
  lpc = "second" => leafAgain = leafResult

\* The first-round candidates of the first run, and the candidates left after
\* the nodes that are somebody's dependency were discarded.
LeafAcyclic == resolve_cycles(graph, setOrder)

FirstRound ==
  filter_and_score_nodes(KeySet(LeafAcyclic), setOrder, registry, LeafAcyclic, suffixed)

PrunedRound ==
  filter_and_score_nodes(DiscardDependencies(KeySet(LeafAcyclic), LeafAcyclic),
                         setOrder, registry, LeafAcyclic, suffixed)

Count(s, x) == Cardinality({i \in DOMAIN s : s[i] = x})

LeastScore(s) == CHOOSE v \in {s[i][2] : i \in DOMAIN s} : \A i \in DOMAIN s : v <= s[i][2]

DependedUpon(id, g) == \E m \in KeySet(g) : m # id /\ id \in g.deps[m]

\* C9: with at least LeafCap first-round candidates, no returned id is a
\* dependency of another node and, if at least LeafCap candidates remain, the
\* result has exactly LeafCap entries and every dropped candidate scores no
\* higher than a kept one; the result never exceeds LeafCap entries; below
\* LeafCap first-round candidates nothing is dropped.
C9_CapPruning ==
  lpc = "first" =>
    /\ Len(leafResult) <= LeafCap
    /\ Len(FirstRound) >= LeafCap =>
         /\ \A i \in DOMAIN leafResult : ~DependedUpon(leafResult[i], LeafAcyclic)
         /\ Len(PrunedRound) >= LeafCap =>
              /\ Len(leafResult) = LeafCap
              /\ \A i \in DOMAIN PrunedRound :
                   PrunedRound[i][2] > LeastScore(leafScored) =>
                     Count(leafScored, PrunedRound[i]) = Count(PrunedRound, PrunedRound[i])
    /\ Len(FirstRound) < LeafCap =>
         \A i \in DOMAIN FirstRound : Count(leafScored, FirstRound[i]) = Count(FirstRound, FirstRound[i])

\* The cap pruning property without ids that end in ".__init__".
CapPruningPlainIds == suffixed \/ C9_CapPruning

\* ------------------------------------------------------------------------
\* Properties of the module partitioner
\* ------------------------------------------------------------------------
Frames == {stack[i] : i \in DOMAIN stack}

\* C4: in a module tree returned by cluster_modules, at every nesting level,
\* every id in a module's components is a key of the component registry and
\* no stored module has an empty components list.
C4_StoredComponentsValid ==
  (status = "returned" /\ result = "tree") =>
     \A e \in tree : e.components # {} /\ e.components \subseteq Components

\* A nested tree was returned although validation had to drop ids or modules.
C4_Witness ==
  /\ status = "returned"
  /\ result = "tree"
  /\ dropped
  /\ \E e \in tree : Len(e.path) = 2

\* TRUE for a call that entered the retry loop and left it with every
\* attempt failed.
AllAttemptsFailed(f) ==
  /\ f.pc \in {"after", "return"}
  /\ TokensOf(f.leaf_nodes) > budget
  /\ f.module_tree = EmptyTree

C6_DepthCap == status = "returned" => \A e \in tree : Len(e.path) <= MaxDepth

\* C7: whatever the oracle answers the recursion stays bounded, so the call
\* never ends in the interpreter's RecursionError instead of returning.
C7_RecursionBounded == status # "RecursionError"

\* ------------------------------------------------------------------------
\* Properties of build_graph_from_components
\* ------------------------------------------------------------------------
Built == gop = "build_graph_from_components"

\* C11: the built graph has exactly the registry ids as nodes, has the edge
\* a -> b exactly when b is in a's depends_on and b is a registry id, and so
\* has no successor that is not a node.
C11_GraphFromRegistry ==
  Built =>
    /\ graph.keys = components.keys
    /\ \A a \in Nodes, b \in Nodes \cup {ExternalId} :
         (a \in KeySet(graph) /\ b \in graph.deps[a])
            <=> (a \in Range(components.keys) /\ b \in components.depends_on[a]
                   /\ b \in Range(components.keys))
    /\ \A a \in KeySet(graph) : graph.deps[a] \subseteq KeySet(graph)
    /\ graph \in Graphs

\* A graph was built from a registry with a dependency on a registry id, one
\* on an external id and one on an id that is not in the registry.
C11_Witness ==
  /\ Built
  /\ \E a \in KeySet(graph) :
       /\ graph.deps[a] # {}
       /\ ExternalId \in components.depends_on[a]
       /\ components.depends_on[a] \cap (Nodes \ KeySet(graph)) # {}

\* ------------------------------------------------------------------------
\* Properties of the analyzers
\* ------------------------------------------------------------------------
\* C12: no two components extracted in one analysis run have the same id.
C12_UniqueIds ==
  \A i, j \in DOMAIN runNodes : i # j => runNodes[i].id # runNodes[j].id

\* C13: a Python file that fails to parse contributes no component and no
\* call relationship, and its analyzer raises nothing to the caller.
C13_ParseFailureSkipped ==
  /\ ~aborted
  /\ \A file \in failed :
       /\ \A i \in DOMAIN runNodes : runNodes[i].file # file
       /\ \A i \in DOMAIN runEdges : runEdges[i].file # file

\* The run is over; one file failed to parse and another file of the run
\* contributed a component and a call relationship.
C13_Witness ==
  /\ pending = {}
  /\ cur = NoFile
  /\ failed # {}
  /\ runNodes # <<>>
  /\ runEdges # <<>>

\* C14: a branch whose token estimate is at or below max_token_per_module
\* returns the empty tree without an oracle call and without a change to the
\* shared module tree; only a branch above the budget asks the oracle.
C14_BudgetStopsBranch ==
  /\ [][(status = "running" /\ Top.pc = "enter" /\ TokensOf(Top.leaf_nodes) <= budget)
          => /\ stack' \in {stack, SetTop([Top EXCEPT !.pc = "return", !.ret = "empty"])}
             /\ tree' = tree
             /\ status' = status]_vars
  /\ [](\A f \in Frames : f.calls > 0 => TokensOf(f.leaf_nodes) > budget)
  /\ [](\A f \in Frames : (f.pc # "enter" /\ TokensOf(f.leaf_nodes) <= budget)
                            => (f.pc = "return" /\ f.ret = "empty" /\ f.calls = 0))

\* A child branch exactly at the budget has returned the empty tree, and the
\* shared tree holds the split that created it.
C14_Witness ==
  /\ Len(stack) = 2
  /\ Top.pc = "return"
  /\ Top.ret = "empty"
  /\ Top.calls = 0
  /\ TokensOf(Top.leaf_nodes) = budget
  /\ budget > 0
  /\ tree # {}

\* ------------------------------------------------------------------------
\* More properties of the graph engine
\* ------------------------------------------------------------------------
RemovedEdges == Edges(graph) \ Edges(acyclic)

ReportedCycles == detect_cycles(graph, setOrder)

\* C15: resolve_cycles(G) has the nodes of G and the edges of G except one
\* edge per cycle that detect_cycles(G) reports, removed inside that cycle;
\* no edge is added and G itself is left as it was.
C15_OneEdgePerCycle ==
  (gop = "resolve_cycles" /\ resolveCalls = 1) =>
     /\ acyclic.keys = graph.keys
     /\ Edges(acyclic) \subseteq Edges(graph)
     /\ Cardinality(RemovedEdges) = Len(ReportedCycles)
     /\ \A i \in DOMAIN ReportedCycles :
          Cardinality({e \in RemovedEdges : e[1] \in Range(ReportedCycles[i])
                                             /\ e[2] \in Range(ReportedCycles[i])}) = 1

\* The strongly connected component of n: n and the nodes it reaches and is
\* reached from.
SccOf(g, n) == {n} \cup {m \in KeySet(g) : m \in Reach(g, n) /\ n \in Reach(g, m)}

StronglyConnectedComponents(g) == {SccOf(g, n) : n \in KeySet(g)}

\* C16: detect_cycles returns exactly the strongly connected components with
\* two or more members: every list is one such component without repeated
\* members, every such component is listed once, no node is in two lists,
\* and a single node is never listed, self-loop or not.
C16_CyclesAreLargeSccs ==
  gop = "detect_cycles" =>
     /\ \A i \in DOMAIN cycles : Len(cycles[i]) = Cardinality(Range(cycles[i]))
     /\ {Range(cycles[i]) : i \in DOMAIN cycles}
          = {c \in StronglyConnectedComponents(graph) : Cardinality(c) >= 2}
     /\ \A i, j \in DOMAIN cycles : i # j => Range(cycles[i]) \cap Range(cycles[j]) = {}
     /\ \A i \in DOMAIN cycles : Len(cycles[i]) >= 2

\* A two-node cycle is reported next to a node whose only edge is a self-loop.
C16_Witness ==
  /\ gop = "detect_cycles"
  /\ Len(cycles) = 1
  /\ \E n \in KeySet(graph) : n \in graph.deps[n] /\ n \notin Range(cycles[1])

FunctionsAreValid(reg) ==
  LET dist == analyze_component_distribution(reg)
  IN \/ dist.oop_count = 0
     \/ 10 * dist.oop_count < dist.total /\ dist.func_count > 20
     \/ dist.oop_count < 5 /\ dist.func_count > 50

\* C17: class-like kinds are valid for every registry, function kinds are
\* valid exactly when the registry has no OOP component, or an OOP ratio
\* below 10% with more than 20 functions, or fewer than 5 OOP components
\* with more than 50 functions; and get_leaf_nodes returns no component
\* whose kind is not valid.
C17_OnlyValidKinds ==
  lpc \in {"first", "second"} =>
     /\ {"class", "interface", "struct", "enum", "record", "abstract class", "annotation"}
          \subseteq determine_valid_types(registry)
     /\ \A t \in {"function", "async_function"} :
          t \in determine_valid_types(registry) <=> FunctionsAreValid(registry)
     /\ \A i \in DOMAIN leafResult :
          leafResult[i] \in registry.ids =>
            registry.comp[leafResult[i]].component_type \in determine_valid_types(registry)

\* C18: get_leaf_nodes returns no node whose id holds an error keyword,
\* except a class whose id holds "exception": a class with another keyword
\* only and a non-class with "exception" are dropped.
C18_KeywordFilter ==
  lpc \in {"first", "second"} =>
     \A i \in DOMAIN leafResult :
        registry.id_keyword[leafResult[i]] # "none" =>
           /\ registry.id_keyword[leafResult[i]] = "exception"
           /\ leafResult[i] \in registry.ids
           /\ registry.comp[leafResult[i]].component_type = "class"

\* The same for registries without an id ending in ".__init__".
KeywordFilterPlainIds == suffixed \/ C18_KeywordFilter

\* C19: the score is min(5 x dependents, 30), plus 20 for an entry-point
\* name or else 10 for a name without a leading underscore, plus 15 when
\* documented, plus 10 for 10..200 lines or 5 for 5..9 lines, plus 10 for a
\* class or interface or 5 for a struct or enum, capped at 100; it lies in
\* 0..100 and is 0 for an id that is not in the registry.
C19_ImportanceFormula ==
  importance # -1 =>
     LET c == candidate.comp
         dependents == Min(5 * candidate.used_by_count, 30)
         named == IF c.name \in {"main", "run", "start", "execute", "__main__"} THEN 20
                  ELSE IF ~startswith_underscore(c.name) THEN 10 ELSE 0
         documented == IF c.documented THEN 15 ELSE 0
         length == IF c.lines \in 10..200 THEN 10 ELSE IF c.lines \in 5..9 THEN 5 ELSE 0
         kind == IF c.component_type \in {"class", "interface"} THEN 10
                 ELSE IF c.component_type \in {"struct", "enum"} THEN 5 ELSE 0
     IN /\ importance \in 0..100
        /\ candidate.in_registry =>
             importance = Min(dependents + named + documented + length + kind, 100)
        /\ ~candidate.in_registry => importance = 0

\* A documented ten-line class named __main__ with seven dependents scores
\* 30 + 20 + 15 + 10 + 10.
C19_Witness ==
  /\ candidate.in_registry
  /\ candidate.used_by_count = MaxDependents
  /\ candidate.comp = [component_type |-> "class", name |-> "__main__",
                       documented |-> TRUE, lines |-> 10]
  /\ importance = 85

\* The importance score of a returned id, on the graph the selector scores on.
ScoreOf(id) == calculate_component_importance(id, registry, resolve_cycles(graph, setOrder))

\* C20: the list get_leaf_nodes returns is in non-increasing order of
\* importance score, whether or not the cap was reached.
C20_SortedByScore ==
  lpc = "first" =>
     \A i, j \in DOMAIN leafResult : i < j => ScoreOf(leafResult[i]) >= ScoreOf(leafResult[j])

\* The same for registries without an id ending in ".__init__".
SortedByScorePlainIds == suffixed \/ C20_SortedByScore

\* C24: on an acyclic graph dependency_first_dfs lists every dependency
\* before its dependents: for every edge A -> B, B comes before A.
C24_DfsDependenciesFirst ==
  (gop = "dependency_first_dfs" /\ IsAcyclic(graph)) =>
     \A e \in Edges(graph) : Precedes(order, e[2], e[1])

\* dependency_first_dfs ran on an acyclic graph with a chain of two edges.
C24_Witness ==
  /\ gop = "dependency_first_dfs"
  /\ IsAcyclic(graph)
  /\ \E a, b, c \in KeySet(graph) : b \in graph.deps[a] /\ c \in graph.deps[b]
  /\ Len(order) = Len(graph.keys)

\* C27: every id in the list get_leaf_nodes returns is a key of the
\* registry and occurs once in the list, ids ending in ".__init__" included.
C27_RegistryKeysOnce ==
  lpc = "first" =>
     /\ \A i \in DOMAIN leafResult : leafResult[i] \in registry.ids
     /\ \A i, j \in DOMAIN leafResult : i # j => leafResult[i] # leafResult[j]

\* The same for registries without an id ending in ".__init__".
RegistryKeysOncePlainIds == suffixed \/ C27_RegistryKeysOnce

\* The call on top of the stack has accepted a split.
SplitAccepted == Top.pc = "recurse" \/ (Top.pc = "return" /\ Top.ret = "tree")

\* The modules stored right under the current path, without the path flag.
ChildrenAtPath ==
  {[path |-> e.path, components |-> e.components] :
     e \in {x \in tree : Len(x.path) = Len(path) + 1 /\ IsPrefix(path, x.path)}}

GroupsOfTop ==
  {[path |-> Append(path, n), components |-> Top.module_tree[n]] :
     n \in Range(ModulesOf(Top.module_tree))}

\* The children at current_path are the groups of the accepted split.
ChildrenAreGroups == (status = "running" /\ SplitAccepted) => ChildrenAtPath = GroupsOfTop

\* C21: an accepted split is stored at current_path, one child per group,
\* and no module of the final tree, at any level, carries a path field.
C21_MergeStripsPath ==
  /\ ChildrenAreGroups
  /\ status = "returned" => \A e \in tree : ~e.has_path

\* C28: in a returned tree the components of every module are among the
\* candidates of the branch that was split to create it: the leaf nodes of
\* the outermost call for a top-level module, the components of the parent
\* module for a deeper one.
C28_ChildWithinCandidates ==
  (status = "returned" /\ result = "tree") =>
     \A e \in tree :
        IF Len(e.path) = 1 THEN e.components \subseteq stack[1].leaf_nodes
        ELSE \A q \in tree : q.path = SubSeq(e.path, 1, Len(e.path) - 1)
                                => e.components \subseteq q.components

\* C26: when the outermost call of cluster_modules has returned or raised,
\* the list used as current_module_path holds what it held on entry: it is
\* empty again.
C26_PathRestored == status # "running" => path = <<>>

\* The same for the calls that return.
PathRestoredOnReturn == status = "returned" => path = <<>>

Invocations == SelectSeq(trace, LAMBDA c : c.call = "func")

WrapperEnded == wpc \in {"returned", "raised", "on_retry raised", "exhausted"}

\* C29: the wrapped function is invoked at most max_retries + 1 times; a
\* successful invocation ends the call; a non-retryable exception is raised
\* again right after the invocation that raised it, without on_retry; when
\* max_retries + 1 invocations raised retryable errors the last exception is
\* raised again; on_retry is called once before each further invocation.
C29_RetryAtMostMaxPlusOne ==
  /\ Len(Invocations) <= retry_config + 1
  /\ \A i \in DOMAIN trace :
       (trace[i].call = "func" /\ trace[i].exc = NoException) =>
          i = Len(trace) /\ wpc = "returned"
  /\ \A i \in DOMAIN trace :
       (trace[i].call = "func" /\ trace[i].exc # NoException
          /\ ~(trace[i].exc.type \in {"ConnectionError", "TimeoutError"}
                \/ trace[i].exc.keyword # "none")) =>
          i = Len(trace) /\ wpc \in {"except", "raised"} /\ last_exception = trace[i].exc
  /\ (WrapperEnded /\ Len(Invocations) = retry_config + 1
        /\ \A i \in DOMAIN Invocations : Invocations[i].exc # NoException) =>
          wpc = "raised" /\ last_exception = Invocations[Len(Invocations)].exc
  /\ \A i \in DOMAIN trace :
       (trace[i].call = "func" /\ i > 1 /\ on_retry # "None") =>
          /\ i > 3
          /\ trace[i - 1].call = "sleep"
          /\ trace[i - 2].call = "on_retry"
          /\ trace[i - 3].call = "func"
          /\ trace[i - 2].exc = trace[i - 3].exc

\* Two retryable failures, each followed by one on_retry call, then a
\* non-retryable failure that ends the call.
C29_Witness ==
  /\ wpc = "raised"
  /\ on_retry = "callback"
  /\ Len(Invocations) = 3
  /\ Len(SelectSeq(trace, LAMBDA c : c.call = "on_retry")) = 2
  /\ last_exception = [type |-> "ValueError", keyword |-> "none"]

\* C25: once the cancel request has set the status of a job to canceled,
\* no later step changes it.
C25_CanceledStays == [][job.status = "canceled" => job'.status = "canceled"]_vars

\* C22: once the job is canceled the partitioner starts no call of
\* cluster_modules for a sibling branch or a deeper level, and the shared
\* tree holds registry ids only, under paths whose prefixes are in the tree.
C22_CancelStopsBranches ==
  /\ [][job.status = "canceled" => Len(stack') <= Len(stack)]_vars
  /\ [](job.status = "canceled" =>
          \A e \in tree :
             /\ e.components \subseteq Components
             /\ \A k \in 1..Len(e.path) : \E q \in tree : q.path = SubSeq(e.path, 1, k))

\* The callee and the flag of a recorded edge.
TargetOf(e) == [callee |-> e.callee, is_resolved |-> e.is_resolved]

\* C23: once a Python file has been walked, each of its call edges is the
\* one given by the first rule that applies, where rule 1 looks the called
\* name up among the top-level components of the whole file, those defined
\* after the call included: a top-level component of the file gives its id
\* and resolved; else an imported name gives the qualified name, unresolved;
\* else a self or cls receiver inside a class gives the class, resolved;
\* else the bare name, unresolved.
C23_CallEdgeByFirstRule ==
  \A i \in DOMAIN runEdges :
    (runEdges[i].kind = "call" /\ runEdges[i].file \notin pending)
      => TargetOf(runEdges[i]) = resolve_call(runEdges[i].call_name,
                                              top_level_nodes(runNodes, runEdges[i].file),
                                              runEdges[i].file, runEdges[i].class_name)

\* What holds instead: the rules pick the edge when every top-level
\* component of the file that the call names was defined before the call.
CallEdgeByFirstRuleDefinedBefore ==
  \A i \in DOMAIN runEdges :
    (/\ runEdges[i].kind = "call"
     /\ runEdges[i].file \notin pending
     /\ \/ Len(runEdges[i].call_name) # 1
        \/ runEdges[i].call_name[1] \in runEdges[i].known
        \/ runEdges[i].call_name[1] \notin top_level_nodes(runNodes, runEdges[i].file))
      => TargetOf(runEdges[i]) = resolve_call(runEdges[i].call_name,
                                              top_level_nodes(runNodes, runEdges[i].file),
                                              runEdges[i].file, runEdges[i].class_name)

\* A call of a name on the deny-list leaves no edge: no recorded edge names
\* a built-in.
NoEdgeToBuiltin ==
  \A i \in DOMAIN runEdges :
    runEdges[i].kind = "call" => runEdges[i].call_name[1] \notin PYTHON_BUILTINS

\* The suggested modules whose components hold the candidate.
ModulesHolding(leaf) ==
  {m \in DOMAIN suggestion :
     \E k \in DOMAIN suggestion[m].members.components :
       suggestion[m].members.components[k] = leaf}

\* C30: suggest_module_structure returns at most max_modules modules, and
\* every candidate that is in the registry with a non-empty relative path is
\* among the components of exactly one of them, whatever names the merged
\* clusters and the modules get.
C30_NoCandidateLostOrDuplicated ==
  spc = "done" =>
    /\ Len(suggestion) <= max_modules
    /\ \A leaf \in LeafIds :
         leaf_paths[leaf] # NoPath => Cardinality(ModulesHolding(leaf)) = 1

\* What holds of the claim: the cap is respected and no candidate is in two
\* modules or in one module twice.
SuggestionCappedNoDuplicates ==
  spc = "done" =>
    /\ Len(suggestion) <= max_modules
    /\ \A leaf \in LeafIds :
         /\ Cardinality(ModulesHolding(leaf)) <= 1
         /\ \A m \in DOMAIN suggestion :
              Cardinality({k \in DOMAIN suggestion[m].members.components :
                             suggestion[m].members.components[k] = leaf}) <= 1

\* The merge loop terminates: every pass leaves fewer clusters.
MergeLoopShrinks ==
  [][(spc = "loop" /\ clusters' # clusters) => Len(clusters') < Len(clusters)]_vars

====
